---- MODULE Spec2Model ----
(***************************************************************************)
(* WIPO PatentScope crawlers: the tiered extraction pipeline of            *)
(* src/wipo_crawler_v2-v2.py (WIPOCrawlerV2, "V2"), with the candidate     *)
(* listers and identifier loops of src/wipo_crawler.py (WIPOCrawler, "V1") *)
(* and src/wipo_crawler_v2-v3.py ("V3").                                   *)
(*                                                                         *)
(* Python strings are sequences of one-character strings, so that strip,   *)
(* lower, startswith and the regular expressions of the source are         *)
(* computed character by character.  Time is counted in half-seconds.      *)
(***************************************************************************)
EXTENDS Integers, Sequences, FiniteSets, TLC

(***************************************************************************)
(* Bounds of the model.                                                    *)
(***************************************************************************)
\* longest listing built from arbitrary raw elements
MaxRaw == 2
\* longest duration of one fetch or navigation, in half-seconds
MaxFetch == 1

(***************************************************************************)
(* Strings.                                                                *)
(***************************************************************************)
UpperToLower ==
    ("A" :> "a") @@ ("B" :> "b") @@ ("C" :> "c") @@ ("D" :> "d") @@ ("E" :> "e") @@
    ("F" :> "f") @@ ("G" :> "g") @@ ("H" :> "h") @@ ("I" :> "i") @@ ("J" :> "j") @@
    ("K" :> "k") @@ ("L" :> "l") @@ ("M" :> "m") @@ ("N" :> "n") @@ ("O" :> "o") @@
    ("P" :> "p") @@ ("Q" :> "q") @@ ("R" :> "r") @@ ("S" :> "s") @@ ("T" :> "t") @@
    ("U" :> "u") @@ ("V" :> "v") @@ ("W" :> "w") @@ ("X" :> "x") @@ ("Y" :> "y") @@
    ("Z" :> "z")

\* str.lower()
Lower(s) ==
    [i \in 1..Len(s) |-> IF s[i] \in DOMAIN UpperToLower THEN UpperToLower[s[i]] ELSE s[i]]

\* the whitespace of str.strip() and of the regular expression class \s
IsSpace(c) == c = " "

\* the regular expression class \d
IsDigit(c) == c \in {"0", "1", "2", "3", "4", "5", "6", "7", "8", "9"}

RECURSIVE LStrip(_)
LStrip(s) ==
    IF s = <<>> THEN s
    ELSE IF IsSpace(Head(s)) THEN LStrip(Tail(s)) ELSE s

RECURSIVE RStrip(_)
RStrip(s) ==
    IF s = <<>> THEN s
    ELSE IF IsSpace(s[Len(s)]) THEN RStrip(SubSeq(s, 1, Len(s) - 1)) ELSE s

\* str.strip()
Strip(s) == RStrip(LStrip(s))

\* str.startswith(p)
StartsWith(s, p) == Len(s) >= Len(p) /\ SubSeq(s, 1, Len(p)) = p

\* p in s, for strings
Contains(s, p) ==
    \E i \in 1..(Len(s) - Len(p) + 1) : SubSeq(s, i, i + Len(p) - 1) = p

\* re.sub / str.replace of single characters by the empty string
RECURSIVE RemoveChars(_, _)
RemoveChars(s, drop) ==
    IF s = <<>> THEN s
    ELSE IF Head(s) \in drop THEN RemoveChars(Tail(s), drop)
         ELSE <<Head(s)>> \o RemoveChars(Tail(s), drop)

DecimalDigits == <<"0", "1", "2", "3", "4", "5", "6", "7", "8", "9">>

\* str(n) for n >= 0
RECURSIVE Decimal(_)
Decimal(n) ==
    IF n < 10 THEN <<DecimalDigits[n + 1]>>
    ELSE Decimal(n \div 10) \o <<DecimalDigits[(n % 10) + 1]>>

Min(a, b) == IF a <= b THEN a ELSE b

\* a variant that removes no duplicate: not part of the program
DictFromKeysKeepingAll(xs) == xs

\* list(dict.fromkeys(xs)): duplicates removed, first occurrences kept in order
RECURSIVE DictFromKeys(_)
DictFromKeys(xs) ==
    IF xs = <<>> THEN <<>>
    ELSE LET init == DictFromKeys(SubSeq(xs, 1, Len(xs) - 1))
             last == xs[Len(xs)]
         IN  IF \E i \in 1..Len(init) : init[i] = last THEN init ELSE Append(init, last)

Max(a, b) == IF a >= b THEN a ELSE b

\* a variant that keeps one entry more: not part of the program
SliceOneMore(xs, n) == SubSeq(xs, 1, Min(Len(xs), n + 1))

\* xs[:n]: the first n entries, and for n < 0 all but the last -n
Slice(xs, n) ==
    IF n >= 0 THEN SubSeq(xs, 1, Min(Len(xs), n))
    ELSE SubSeq(xs, 1, Max(0, Len(xs) + n))

\* int(n / d) for d # 0: the quotient truncated toward zero
IntQuotient(n, d) ==
    LET an == IF n < 0 THEN 0 - n ELSE n
        ad == IF d < 0 THEN 0 - d ELSE d
    IN  IF (n < 0) = (d < 0) THEN an \div ad ELSE 0 - (an \div ad)

(***************************************************************************)
(* Validator: looks_wrong.                                                 *)
(***************************************************************************)
invalid_patterns ==
    { <<"c", "l", "o", "s", "e">>,
      <<"r", "e", "s", "e", "t">>,
      <<"c", "l", "i", "c", "k">>,
      <<"b", "u", "t", "t", "o", "n">>,
      <<"s", "u", "b", "m", "i", "t">>,
      <<"s", "e", "a", "r", "c", "h">>,
      <<"m", "e", "n", "u">>,
      <<"n", "a", "v">>,
      <<"h", "e", "a", "d", "e", "r">>,
      <<"f", "o", "o", "t", "e", "r">>,
      <<"g", "r", "e", "e", "n", " ", "i", "n", "v", "e", "n", "t", "o", "r", "y">>,
      <<"l", "o", "a", "d", "i", "n", "g">>,
      <<"p", "l", "e", "a", "s", "e", " ", "w", "a", "i", "t">> }

title_action_prefixes ==
    { <<"c", "l", "i", "c", "k">>,
      <<"c", "l", "o", "s", "e">>,
      <<"o", "p", "e", "n">>,
      <<"s", "e", "l", "e", "c", "t">> }

\* the shortest title the validator accepts
MinTitleLen == 10

\* the shortest applicant entry the validator accepts
MinApplicantLen == 3

\* re.search(r'[A-H]\d{2}[A-Z]', v)
IpcShape(v) ==
    \E i \in 1..(Len(v) - 3) :
        /\ v[i] \in {"A", "B", "C", "D", "E", "F", "G", "H"}
        /\ IsDigit(v[i + 1])
        /\ IsDigit(v[i + 2])
        /\ v[i + 3] \in DOMAIN UpperToLower

WOPrefix == <<"W", "O">>

\* a variant that compares with the noise vocabulary without folding the case:
\* not part of the program
looks_wrong_case_sensitive(value, field_type) ==
    LET v == Strip(value)
    IN  \/ value = <<>>
        \/ v = <<>>
        \/ v \in invalid_patterns
        \/ /\ field_type = "title"
           /\ \/ Len(v) < MinTitleLen
              \/ \E p \in title_action_prefixes : StartsWith(v, p)
        \/ /\ field_type = "ipc"
           /\ ~IpcShape(v)
        \/ /\ field_type = "publication_number"
           /\ ~StartsWith(v, WOPrefix)
        \/ /\ field_type = "applicants"
           /\ Len(v) < MinApplicantLen

\* a variant that rejects nothing but empty and blank values: not part of the
\* program
looks_wrong_blank_only(value, field_type) ==
    \/ value = <<>>
    \/ Strip(value) = <<>>

\* looks_wrong(value, field_type): TRUE when the value looks wrong
looks_wrong(value, field_type) ==
    LET v == Strip(value)
    IN  \/ value = <<>>
        \/ v = <<>>
        \/ Lower(v) \in invalid_patterns
        \/ /\ field_type = "title"
           /\ \/ Len(v) < MinTitleLen
              \/ \E p \in title_action_prefixes : StartsWith(Lower(v), p)
        \/ /\ field_type = "ipc"
           /\ ~IpcShape(v)
        \/ /\ field_type = "publication_number"
           /\ ~StartsWith(v, WOPrefix)
        \/ /\ field_type = "applicants"
           /\ Len(v) < MinApplicantLen

(***************************************************************************)
(* Statistics: WIPOStats.  A rate is an exact fraction <<num, den>> in     *)
(* lowest terms.                                                           *)
(***************************************************************************)
RECURSIVE Gcd(_, _)
Gcd(a, b) == IF b = 0 THEN a ELSE Gcd(b, a % b)

Frac(n, d) == LET g == Gcd(n, d) IN <<n \div g, d \div g>>

FracTimes(f, k) == Frac(f[1] * k, f[2])

ZeroStats ==
    [static_success |-> 0, direct_success |-> 0, interactive_success |-> 0, failures |-> 0]

StatsTotal(s) ==
    s.static_success + s.direct_success + s.interactive_success + s.failures

\* a variant that returns the bare ratio: not part of the program
success_rate_ratio(s) ==
    LET total == StatsTotal(s)
    IN  IF total = 0 THEN <<0, 1>> ELSE Frac(total - s.failures, total)

success_rate(s) ==
    LET total == StatsTotal(s)
    IN  IF total = 0 THEN <<0, 1>>
        ELSE FracTimes(Frac(total - s.failures, total), 100)

(***************************************************************************)
(* Result listings and the candidate listers.                              *)
(***************************************************************************)
SeqUpTo(S, n) == UNION {[1..k -> S] : k \in 0..n}

RawSlashed == <<"W", "O", "/", "1">>
RawPlain == <<"W", "O", "1">>
RawDashed == <<"W", "O", "-", "2">>
RawSpaced == <<" ", "W", "O", " ", "2", " ">>
RawForeign == <<"E", "P", "1">>
RawInfix == <<"x", "W", "O", "/", "3">>
HrefWO1 == <<"a", "?", "d", "o", "c", "I", "d", "=", "W", "O", "1">>
HrefWO3 == <<"a", "?", "d", "o", "c", "I", "d", "=", "W", "O", "3", "&", "x">>
HrefNoDigits == <<"a", "?", "d", "o", "c", "I", "d", "=", "W", "O">>
HrefForeign == <<"a", "?", "d", "o", "c", "I", "d", "=", "E", "P", "1">>
DocIdWO == <<"d", "o", "c", "I", "d", "=", "W", "O">>

\* an element of a result page: its text and its href attribute (<<>>: none)
Span(t) == [text |-> t, href |-> <<>>]
Link(t, h) == [text |-> t, href |-> h]

RawTexts == {RawSlashed, RawPlain, RawDashed, RawSpaced, RawForeign, RawInfix, <<>>}

SpanElems == {Span(t) : t \in RawTexts}

LinkElems ==
    {Link(<<>>, h) : h \in {HrefWO1, HrefWO3, HrefNoDigits}} \cup {Link(RawDashed, HrefWO1)}

\* the listing WO/1, WO/2, ..., WO/n as the source renders it
CanonListing(n) == [i \in 1..n |-> Span(<<"W", "O", "/">> \o Decimal(i))]

\* the listing as links: docId=WO1, docId=WO2, ...
CanonLinks(n) == [i \in 1..n |-> Link(<<>>, DocIdWO \o Decimal(i))]

\* the longest run of digits at the start of s
RECURSIVE DigitRun(_)
DigitRun(s) ==
    IF s = <<>> \/ ~IsDigit(Head(s)) THEN <<>>
    ELSE <<Head(s)>> \o DigitRun(Tail(s))

\* re.search(r'docId=(WO\d+)', href): the group of the leftmost match
SearchDocId(href) ==
    LET at == {i \in 1..Len(href) :
                  /\ i + Len(DocIdWO) <= Len(href)
                  /\ SubSeq(href, i, i + Len(DocIdWO) - 1) = DocIdWO
                  /\ IsDigit(href[i + Len(DocIdWO)])}
    IN  IF at = {} THEN [matched |-> FALSE, group |-> <<>>]
        ELSE LET i == CHOOSE k \in at : \A j \in at : k <= j
             IN  [matched |-> TRUE,
                  group |-> WOPrefix \o DigitRun(SubSeq(href, i + Len(DocIdWO), Len(href)))]

\* V2: the first selector strategy that finds anything
SelectElements(page) ==
    IF page.primary # <<>> THEN page.primary
    ELSE IF page.fuzzy # <<>> THEN page.fuzzy
    ELSE page.links

\* V2: the normalized token of one element, <<>> when it is rejected
NormalizeV2(elem) ==
    LET stripped == Strip(elem.text)
        m == SearchDocId(elem.href)
        wo_text == IF stripped = <<>> /\ elem.href # <<>> /\ m.matched THEN m.group
                   ELSE stripped
        wo_clean == RemoveChars(wo_text, {"/", " ", "-"})
    IN  IF wo_clean # <<>> /\ StartsWith(wo_clean, WOPrefix) THEN wo_clean ELSE <<>>

\* the tokens kept, in page order: <<>> marks a rejected element
RECURSIVE KeepTokens(_)
KeepTokens(tokens) ==
    IF tokens = <<>> THEN <<>>
    ELSE IF Head(tokens) = <<>> THEN KeepTokens(Tail(tokens))
         ELSE <<Head(tokens)>> \o KeepTokens(Tail(tokens))

\* V2: _get_wo_list_httpx; every exception and every non-200 status gives []
GetWoListHttpx(resp) ==
    IF resp.exc \/ resp.status # 200 THEN <<>>
    ELSE LET elems == SelectElements(resp.page)
         IN  DictFromKeys(KeepTokens([i \in 1..Len(elems) |-> NormalizeV2(elems[i])]))

\* V1: the token of one element, <<>> when it is skipped
NormalizeV1(elem) ==
    IF elem.text # <<>> /\ Contains(elem.text, WOPrefix)
    THEN Strip(RemoveChars(elem.text, {"/"}))
    ELSE <<>>

\* V1: _extract_wo_numbers; a wait that times out gives []
ExtractWoNumbers(resp) ==
    IF resp.exc THEN <<>>
    ELSE KeepTokens([i \in 1..Len(resp.page) |-> NormalizeV1(resp.page[i])])

\* V3: the token of one anchor, <<>> when the anchor is not selected or not matched
NormalizeV3(elem) ==
    LET m == SearchDocId(elem.href)
    IN  IF Contains(elem.href, DocIdWO) /\ m.matched THEN m.group ELSE <<>>

\* V3: search_wipo after a successful fetch
SearchWipoV3(page, limit) ==
    Slice(DictFromKeys(KeepTokens([i \in 1..Len(page) |-> NormalizeV3(page[i])])), limit)

(***************************************************************************)
(* Detail pages, the semantic fallback and the two tiers of V2.            *)
(***************************************************************************)
TitleClick == <<"C", "l", "i", "c", "k">>
TitleShort == <<"A", "s", "p", "i", "r", "i", "n">>
TitleClickHere ==
    <<"C", "l", "i", "c", "k", " ", "h", "e", "r", "e", " ", "t", "o", " ", "v", "i", "e", "w">>
TitleNoise == <<"G", "r", "e", "e", "n", " ", "I", "n", "v", "e", "n", "t", "o", "r", "y">>
TitleGood ==
    <<"D", "a", "r", "o", "l", "u", "t", "a", "m", "i", "d", "e", " ", "s", "a", "l", "t">>
ReplyPaddedClose == <<" ", " ", "C", "l", "o", "s", "e", " ", " ">>
ReplyPaddedTitle ==
    <<" ", "D", "a", "r", "o", "l", "u", "t", "a", "m", "i", "d", "e", " ", "s", "a", "l", "t", " ">>

\* what _extract_field_with_label finds for the title of a detail page
StructuralTitles == {<<>>, TitleClick, TitleShort, TitleClickHere, TitleNoise, TitleGood}

\* what the completion service does when it is asked
GroqReplies ==
    {[error |-> TRUE, content |-> <<>>]}
        \cup {[error |-> FALSE, content |-> c] : c \in {<<>>, ReplyPaddedClose, ReplyPaddedTitle}}

NoReply == [error |-> TRUE, content |-> <<>>]

\* a detail fetch answered with a page whose title is good
GoodDetailResponses == {[exc |-> "none", status |-> 200, title |-> TitleGood]}

\* the answers to a detail fetch (T1): an exception of the client, or a status and a page
DetailResponses ==
    {[exc |-> e, status |-> 0, title |-> <<>>] : e \in {"network_error", "timeout"}}
        \cup {[exc |-> "none", status |-> 404, title |-> <<>>]}
        \cup {[exc |-> "none", status |-> 200, title |-> t] : t \in StructuralTitles}

\* the answers to a navigation (T2): goto raising, the ready marker missing, or a page
Navigations ==
    {[exc |-> "timeout", ready |-> FALSE, title |-> <<>>]}
        \cup {[exc |-> "none", ready |-> FALSE, title |-> <<>>]}
        \cup {[exc |-> "none", ready |-> TRUE, title |-> t] : t \in StructuralTitles}

None == [none |-> TRUE, val |-> <<>>]
Some(v) == [none |-> FALSE, val |-> v]

\* what one invocation of groq_extract_field returned, and whether it sent a
\* request to the completion service
GroqOutcome(result, contacted) ==
    [none |-> result.none, val |-> result.val, contacted |-> contacted]

\* a variant that asks the service whether or not there is a key: not part of the program
groq_extract_field_keyless(reply, key) ==
    IF reply.error THEN GroqOutcome(None, TRUE)
    ELSE GroqOutcome(Some(Strip(reply.content)), TRUE)

\* groq_extract_field: None without a key, before anything is sent, and None
\* on every exception of the service
groq_extract_field(reply, key) ==
    IF ~key THEN GroqOutcome(None, FALSE)
    ELSE IF reply.error THEN GroqOutcome(None, TRUE)
    ELSE GroqOutcome(Some(Strip(reply.content)), TRUE)

\* one invocation of groq_extract_field for a field
FallbackCall(field, outcome) == [field |-> field, contacted |-> outcome.contacted]

\* the value of a field and the fallback invocations made for it
Parsed(value, made) == [value |-> value, calls |-> made]

\* a variant that asks the fallback for every field: not part of the program
ParseFieldAlwaysAsking(structural, reply, key, kind) ==
    LET groq_value == groq_extract_field(reply, key)
    IN  Parsed(IF /\ looks_wrong(structural, kind)
                  /\ ~groq_value.none /\ groq_value.val # <<>>
                  /\ ~looks_wrong(groq_value.val, kind)
               THEN groq_value.val
               ELSE structural,
               <<FallbackCall(kind, groq_value)>>)

\* _parse_biblio_robust, title and ipc: the fallback is asked when the
\* structural value looks wrong, and its answer is taken when it does not look wrong
ParseField(structural, reply, key, kind) ==
    IF looks_wrong(structural, kind)
    THEN LET groq_value == groq_extract_field(reply, key)
         IN  Parsed(IF ~groq_value.none /\ groq_value.val # <<>>
                        /\ ~looks_wrong(groq_value.val, kind)
                    THEN groq_value.val
                    ELSE structural,
                    <<FallbackCall(kind, groq_value)>>)
    ELSE Parsed(structural, <<>>)

\* _parse_biblio_robust, the title
ParseTitle(structural, reply, key) == ParseField(structural, reply, key, "title").value

\* str.split(','): the pieces between the commas
RECURSIVE SplitComma(_)
SplitComma(s) ==
    IF \A i \in DOMAIN s : s[i] # ","
    THEN <<s>>
    ELSE LET k == CHOOSE i \in DOMAIN s : s[i] = "," /\ \A j \in 1..(i - 1) : s[j] # ","
         IN  <<SubSeq(s, 1, k - 1)>> \o SplitComma(SubSeq(s, k + 1, Len(s)))

\* applicants[:10]
MaxApplicants == 10

\* _parse_biblio_robust, the applicants: the fallback is asked when the list is
\* empty or is one entry that looks wrong, and a non-empty answer is split and taken
ParseApplicants(structural, reply, key) ==
    IF structural = <<>> \/ (Len(structural) = 1 /\ looks_wrong(structural[1], "applicants"))
    THEN LET groq_apps == groq_extract_field(reply, key)
             pieces == SplitComma(groq_apps.val)
         IN  Parsed(IF ~groq_apps.none /\ groq_apps.val # <<>>
                    THEN Slice([i \in DOMAIN pieces |-> Strip(pieces[i])], MaxApplicants)
                    ELSE Slice(structural, MaxApplicants),
                    <<FallbackCall("applicants", groq_apps)>>)
    ELSE Parsed(Slice(structural, MaxApplicants), <<>>)

\* _extract_field_with_label for a label element followed by one sibling element
\* and no enclosing container: the sibling's text, stripped
extract_field_with_label(label_text, sibling) ==
    LET value == Strip(sibling)
    IN  IF value # <<>> /\ Lower(value) # Lower(label_text)
        THEN value
        ELSE Strip(sibling)

LabelTitle == <<"T", "i", "t", "l", "e">>
LabelIpc == <<"I", "P", "C">>

\* _parse_biblio_robust: title, applicants and ipc_codes of a detail page, and
\* the fallback invocations in the order they are made
ParseBiblioRobust(d, key) ==
    LET title == ParseField(extract_field_with_label(LabelTitle, d.title),
                            d.replies.title, key, "title")
        applicants == ParseApplicants(d.applicants, d.replies.applicants, key)
        ipc == ParseField(extract_field_with_label(LabelIpc, d.ipc), d.replies.ipc, key, "ipc")
    IN  [title |-> title.value, applicants |-> applicants.value, ipc_codes |-> ipc.value,
         calls |-> title.calls \o applicants.calls \o ipc.calls]

\* a variant that leaves the method at FAILED: not part of the program
PatentDataMethodFailed(wo, method, title) ==
    [wo_number |-> wo, source |-> "WIPO", extraction_method |-> "failed",
     biblio_data |-> [title |-> title]]

PatentData(wo, method, title) ==
    [wo_number |-> wo, source |-> "WIPO", extraction_method |-> method,
     biblio_data |-> [title |-> title]]

\* the result of one tier: the exception it raised ("none": it returned), what
\* happened, and patent_data
TierResult(exc, outcome, data) == [exc |-> exc, outcome |-> outcome, data |-> data]

\* a variant without the final validation: not part of the program
ExtractStaticHttpxUnvalidated(wo, resp, reply, key) ==
    IF resp.exc # "none"
    THEN TierResult("Exception", resp.exc, PatentData(wo, "static_httpx", <<>>))
    ELSE IF resp.status # 200
    THEN TierResult("WIPOExtractionError", "http_status", PatentData(wo, "static_httpx", <<>>))
    ELSE TierResult("none", "success",
                    PatentData(wo, "static_httpx", ParseTitle(resp.title, reply, key)))

\* _extract_static_httpx (T1)
ExtractStaticHttpx(wo, resp, reply, key) ==
    IF resp.exc # "none"
    THEN TierResult("Exception", resp.exc, PatentData(wo, "static_httpx", <<>>))
    ELSE IF resp.status # 200
    THEN TierResult("WIPOExtractionError", "http_status", PatentData(wo, "static_httpx", <<>>))
    ELSE LET data == PatentData(wo, "static_httpx", ParseTitle(resp.title, reply, key))
         IN  IF data.biblio_data.title = <<>> \/ looks_wrong(data.biblio_data.title, "title")
             THEN TierResult("WIPOExtractionError", "validation_failed", data)
             ELSE TierResult("none", "success", data)

\* a variant that tags the record with the static method: not part of the program
ExtractDirectPlaywrightMistagged(wo, nav, reply, key) ==
    IF nav.exc # "none"
    THEN TierResult("Exception", nav.exc, PatentData(wo, "static_httpx", <<>>))
    ELSE IF ~nav.ready
    THEN TierResult("WIPOExtractionError", "not_ready", PatentData(wo, "static_httpx", <<>>))
    ELSE LET data == PatentData(wo, "static_httpx", ParseTitle(nav.title, reply, key))
         IN  IF data.biblio_data.title = <<>> \/ looks_wrong(data.biblio_data.title, "title")
             THEN TierResult("WIPOExtractionError", "validation_failed", data)
             ELSE TierResult("none", "success", data)

\* _extract_direct_playwright (T2)
ExtractDirectPlaywright(wo, nav, reply, key) ==
    IF nav.exc # "none"
    THEN TierResult("Exception", nav.exc, PatentData(wo, "direct_playwright", <<>>))
    ELSE IF ~nav.ready
    THEN TierResult("WIPOExtractionError", "not_ready", PatentData(wo, "direct_playwright", <<>>))
    ELSE LET data == PatentData(wo, "direct_playwright", ParseTitle(nav.title, reply, key))
         IN  IF data.biblio_data.title = <<>> \/ looks_wrong(data.biblio_data.title, "title")
             THEN TierResult("WIPOExtractionError", "validation_failed", data)
             ELSE TierResult("none", "success", data)

\* a variant that falls through to the next tier after a success: not part of the program
TieredAfterStaticFallThrough(r, up) ==
    IF r.exc = "Exception" THEN "propagate"
    ELSE IF up THEN "tier2"
    ELSE IF r.exc = "none" THEN "return" ELSE "raise"

\* _extract_patent_tiered after T1: return the data, go on to T2, raise "all
\* tiers failed", or let an exception that is no WIPOExtractionError through
TieredAfterStatic(r, up) ==
    IF r.exc = "none" THEN "return"
    ELSE IF r.exc = "WIPOExtractionError" THEN (IF up THEN "tier2" ELSE "raise")
    ELSE "propagate"

\* _extract_patent_tiered after T2
TieredAfterDirect(r) ==
    IF r.exc = "none" THEN "return"
    ELSE IF r.exc = "WIPOExtractionError" THEN "raise"
    ELSE "propagate"

(***************************************************************************)
(* State.                                                                  *)
(***************************************************************************)
VARIABLES
    variant,        \* which crawler runs: "V1", "V2" or "V3"
    pc,             \* where the run is
    use_playwright, \* V2: whether T2 is enabled
    groq_api_key,   \* V2: whether credentials for the fallback are present
    has_callback,   \* whether a progress callback was supplied
    max_results,    \* the cap on the identifiers processed
    response,       \* the answer to the listing fetch, while the lister holds it
    wo_list,        \* the identifiers the lister returned
    idx,            \* 1-based index of the identifier being processed
    patents_data,   \* the records collected; the return value at "done"
    stats,          \* V2: WIPOStats
    tierLog,        \* the tiers invoked for the current identifier: their outcomes, and
                    \* whether the title is the answer of the fallback
    outcomes,       \* how each processed identifier ended
    elapsed,        \* time since processing of the current identifier started
    rate,           \* V2: the success rate reported at the end of the run
    raised,         \* what made the call raise ("none": nothing did)
    lifecycle,      \* V2: "new", "started", "start_failed", "closed" or "close_failed"
    held,           \* V2: the resources acquired and not released
    sessions,       \* how many rendering sessions (browsers) were launched
    progress,       \* the calls of the progress callback: identifier index (0: before
                    \* the loop) and percent
    fpc,            \* where the parse of one detail page is ("idle": none under way)
    doc,            \* the detail page: what the structural extraction finds in it
    biblio,         \* the fields _parse_biblio_robust returned
    calls,          \* the invocations of groq_extract_field, in order
    verdict,        \* the outcome of the tier that parsed the page
    probe,          \* a value and a kind given to looks_wrong, and its answer
    soup,           \* the parsed tree the structural extractors are given
    seen            \* for each field, the values its extractor has returned for soup

\* the variables of a crawler run
runVars ==
    <<variant, pc, use_playwright, has_callback, max_results, response,
      wo_list, idx, patents_data, stats, tierLog, outcomes, elapsed, rate, raised,
      lifecycle, held, sessions, progress>>

\* the variables of the parse of one detail page
fieldVars == <<fpc, doc, biblio, calls, verdict, probe, soup, seen>>

vars == <<runVars, groq_api_key, fieldVars>>

NoResponse == [exc |-> FALSE, status |-> 0, page |-> <<>>]
NoRate == <<0, 0>>

\* V2: asyncio.sleep(random.uniform(1.5, 3.0)), in half-seconds
V2MinDelay == 3
V2MaxDelay == 6
\* V2: the callback is invoked for every ProgressEveryV2-th identifier
ProgressEveryV2 == 5

\* the longest result listing WO/1, WO/2, ... explored with every answer of the
\* detail pages: long enough for the progress report inside the loop of V2
LongListing == ProgressEveryV2

\* V1: the callback is invoked for every ProgressEveryV1-th identifier
ProgressEveryV1 == 10

\* the lengths of the longer listings WO/1, WO/2, ...: long enough for the
\* progress reports of V1 and for several of V2.  They are explored with detail
\* pages that answer at once with a good title (see Reliable)
LongerListings == {LongListing + 2, ProgressEveryV1, 2 * ProgressEveryV1}

\* the max_results values a caller passes: a negative one, none, one that
\* truncates every listing of two or more, one that truncates only the longest
\* listing
ResultCaps == {0 - 1, 0, 2, ProgressEveryV1 + 2}

\* the listing responses explored for a cap: a negative cap is explored with
\* the long listings only
ExploredWith(responses, cap, long) ==
    {r \in responses : cap >= 0 \/ r \in long}

\* wo_list[:max_results]
Work == Slice(wo_list, max_results)

V2Page(p, f, l) == [primary |-> p, fuzzy |-> f, links |-> l]

\* the result pages the listing fetch of V2 may receive
PagesV2 ==
    {V2Page(p, <<>>, l) : p \in SeqUpTo(SpanElems, MaxRaw), l \in SeqUpTo(LinkElems, 1)}
        \cup {V2Page(CanonListing(n), CanonListing(n), CanonLinks(n)) :
                  n \in (1..LongListing) \cup LongerListings}
        \cup {V2Page(<<>>, CanonListing(n), CanonLinks(n)) : n \in 1..MaxRaw}

ListingResponsesV2 ==
    {[exc |-> TRUE, status |-> 0, page |-> V2Page(<<>>, <<>>, <<>>)],
     [exc |-> FALSE, status |-> 500, page |-> V2Page(<<>>, <<>>, <<>>)]}
        \cup {[exc |-> FALSE, status |-> 200, page |-> p] : p \in PagesV2}

\* no detail page is being parsed
NoDoc ==
    [title |-> <<>>, applicants |-> <<>>, ipc |-> <<>>,
     replies |-> [title |-> NoReply, applicants |-> NoReply, ipc |-> NoReply]]
NoBiblio == [title |-> <<>>, applicants |-> <<>>, ipc_codes |-> <<>>]
NoProbe == [value |-> <<>>, kind |-> "none", wrong |-> "unasked"]

\* the fields whose structural extraction is followed
Fields == {"title", "ipc", "applicants"}

\* no tree is being searched
NoSoup == [container |-> "none", nodes |-> <<>>]
NoneSeen == [f \in Fields |-> {}]

Init ==
    /\ variant \in {"V1", "V2", "V3"}
    /\ pc = "start"
    /\ use_playwright \in (IF variant = "V2" THEN BOOLEAN ELSE {FALSE})
    /\ groq_api_key \in (IF variant = "V2" THEN BOOLEAN ELSE {FALSE})
    /\ has_callback \in (IF variant = "V3" THEN {FALSE} ELSE BOOLEAN)
    /\ max_results \in ResultCaps
    /\ response = NoResponse
    /\ wo_list = <<>>
    /\ idx = 0
    /\ patents_data = <<>>
    /\ stats = (IF variant = "V3" THEN [success |-> 0, failures |-> 0] ELSE ZeroStats)
    /\ tierLog = <<>>
    /\ outcomes = <<>>
    /\ elapsed = 0
    /\ rate = NoRate
    /\ raised = "none"
    /\ lifecycle = "new"
    /\ held = {}
    /\ sessions = 0
    /\ progress = <<>>
    /\ fpc = "idle"
    /\ doc = NoDoc
    /\ biblio = NoBiblio
    /\ calls = <<>>
    /\ verdict = "none"
    /\ probe = NoProbe
    /\ soup = NoSoup
    /\ seen = NoneSeen

(***************************************************************************)
(* V2: WIPOCrawlerV2.search_wipo.                                          *)
(***************************************************************************)
\* the resources start acquires, in the order it acquires them
StartOrder(up) ==
    IF up THEN <<"client", "playwright", "browser", "context", "page">> ELSE <<"client">>

\* the elements of a sequence
Range(xs) == {xs[i] : i \in DOMAIN xs}

\* __aenter__ and start: the HTTP client, then with use_playwright the driver,
\* the browser, the context and the page.  A step after the first may raise;
\* then `async with` never calls __aexit__ and what was acquired stays acquired
V2_Start ==
    /\ variant = "V2" /\ pc = "start" /\ lifecycle = "new"
    /\ \E n \in 1..Len(StartOrder(use_playwright)) :
           /\ held' = Range(SubSeq(StartOrder(use_playwright), 1, n))
           /\ sessions' = IF "browser" \in held' THEN 1 ELSE 0
           /\ IF n = Len(StartOrder(use_playwright))
              THEN lifecycle' = "started" /\ UNCHANGED <<pc, raised>>
              ELSE lifecycle' = "start_failed" /\ pc' = "raised" /\ raised' = "startup"
    /\ UNCHANGED <<fieldVars, progress>>
    /\ UNCHANGED <<variant, use_playwright, groq_api_key, has_callback, max_results,
                   response, wo_list, idx, patents_data, stats, tierLog, outcomes,
                   elapsed, rate>>

\* the resources close releases, in the order it releases them; closing the
\* context closes its page
CloseOrder == <<"client", "context", "browser">>

\* what is still held when the step at position `failing` of close raised
\* (0: none did): the steps before it released theirs, the later ones never ran
HeldAfterClose(h, failing) ==
    IF failing = 0 THEN h \ (Range(CloseOrder) \cup {"page"})
    ELSE h \ (Range(SubSeq(CloseOrder, 1, failing - 1))
                \cup (IF failing > 2 THEN {"page"} ELSE {}))

\* __aexit__ and close, when search_wipo returned or raised
V2_Close ==
    /\ variant = "V2" /\ pc \in {"done", "raised"} /\ lifecycle = "started"
    /\ \E failing \in {0} \cup {i \in DOMAIN CloseOrder : CloseOrder[i] \in held} :
           /\ held' = HeldAfterClose(held, failing)
           /\ lifecycle' = IF failing = 0 THEN "closed" ELSE "close_failed"
    /\ UNCHANGED <<fieldVars, sessions, progress>>
    /\ UNCHANGED <<variant, pc, use_playwright, groq_api_key, has_callback, max_results,
                   response, wo_list, idx, patents_data, stats, tierLog, outcomes,
                   elapsed, rate, raised>>

\* the percent of the progress report for identifier idx of total, V2
ProgressPercentV2(i, total) == 5 + IntQuotient(i * 90, total)

\* the percent of the progress report for identifier idx of total, V1
ProgressPercentV1(i, total) == 5 + IntQuotient(i * 15, total)

\* one call of the progress callback
ProgressCall(i, percent) == [at |-> i, percent |-> percent]

\* the listings longer than LongListing are explored with detail pages that
\* answer at once with a good title, and with the shortest delay
Reliable == Len(wo_list) > LongListing

\* the first progress report; an exception of the callback leaves search_wipo
V2_Begin ==
    /\ variant = "V2" /\ pc = "start" /\ lifecycle = "started"
    /\ progress' = IF has_callback THEN Append(progress, ProgressCall(0, 5)) ELSE progress
    /\ \E raises \in {r \in BOOLEAN : r => has_callback} :
           /\ pc' = IF raises THEN "raised" ELSE "listing"
           /\ raised' = IF raises THEN "callback" ELSE "none"
    /\ UNCHANGED <<fieldVars, lifecycle, held, sessions>>
    /\ UNCHANGED <<variant, use_playwright, groq_api_key, has_callback, max_results,
                   response, wo_list, idx, patents_data, stats, tierLog, outcomes,
                   elapsed, rate>>

\* _get_wo_list_httpx: the fetch and the parse of the result listing
V2_GetWoList ==
    /\ variant = "V2" /\ pc = "listing"
    /\ \E resp \in ExploredWith(ListingResponsesV2, max_results,
                               {r \in ListingResponsesV2 :
                                    Len(r.page.primary) > LongListing}) :
           /\ response' = resp
           /\ wo_list' = GetWoListHttpx(resp)
    /\ pc' = "listed"
    /\ UNCHANGED <<fieldVars, lifecycle, held, sessions, progress>>
    /\ UNCHANGED <<variant, use_playwright, groq_api_key, has_callback, max_results,
                   idx, patents_data, stats, tierLog, outcomes, elapsed, rate, raised>>

\* back in search_wipo: return [] for an empty list, else enter the loop
V2_AfterList ==
    /\ variant = "V2" /\ pc = "listed"
    /\ response' = NoResponse
    /\ IF wo_list = <<>>
       THEN pc' = "done" /\ idx' = idx
       ELSE pc' = "loop" /\ idx' = 1
    /\ UNCHANGED <<fieldVars, lifecycle, held, sessions, progress>>
    /\ UNCHANGED <<variant, use_playwright, groq_api_key, has_callback, max_results,
                   wo_list, patents_data, stats, tierLog, outcomes, elapsed, rate, raised>>

\* a variant that catches only the crawler's own exception: not part of the program
LoopCatchesOnlyExtractionError(next) == next = "raise"

\* `except Exception` of the loop catches the "all tiers failed" error and
\* every other exception that reaches it
LoopCatches(next) == next \in {"raise", "propagate"}

\* a variant that continues without counting: not part of the program
FailIdentifierUncounted(how) ==
    /\ outcomes' = Append(outcomes, how)
    /\ idx' = idx + 1
    /\ pc' = "loop"
    /\ UNCHANGED <<patents_data, stats>>

\* a variant that counts the failure twice: not part of the program
FailIdentifierCountedTwice(how) ==
    /\ stats' = [stats EXCEPT !.failures = @ + 2]
    /\ outcomes' = Append(outcomes, how)
    /\ idx' = idx + 1
    /\ pc' = "loop"
    /\ UNCHANGED patents_data

\* the except clause of the loop: count a failure and continue with the next identifier
FailIdentifier(how) ==
    /\ stats' = [stats EXCEPT !.failures = @ + 1]
    /\ outcomes' = Append(outcomes, how)
    /\ idx' = idx + 1
    /\ pc' = "loop"
    /\ UNCHANGED patents_data

\* the top of one loop iteration, with the progress report every fifth identifier
V2_StartIdentifier ==
    /\ variant = "V2" /\ pc = "loop" /\ idx <= Len(Work)
    /\ tierLog' = <<>>
    /\ elapsed' = 0
    /\ progress' =
           IF has_callback /\ idx % ProgressEveryV2 = 0
           THEN Append(progress,
                       ProgressCall(idx, ProgressPercentV2(idx, Min(Len(wo_list), max_results))))
           ELSE progress
    /\ \E raises \in {r \in BOOLEAN : r => (has_callback /\ idx % ProgressEveryV2 = 0)} :
           IF raises
           THEN FailIdentifier("callback_raised")
           ELSE /\ pc' = "t1"
                /\ UNCHANGED <<stats, outcomes, idx, patents_data>>
    /\ UNCHANGED <<fieldVars, lifecycle, held, sessions>>
    /\ UNCHANGED <<variant, use_playwright, groq_api_key, has_callback, max_results,
                   response, wo_list, rate, raised>>

\* what search_wipo and _extract_patent_tiered do with the result r of a tier
\* whose success counter is `counter`, given the decision `next` of the coordinator
AfterTier(r, next, counter) ==
    /\ IF next = "return"
       THEN /\ patents_data' = Append(patents_data, r.data)
            /\ stats' = [stats EXCEPT ![counter] = @ + 1]
            /\ outcomes' = Append(outcomes, counter)
            /\ pc' = "sleep"
            /\ UNCHANGED <<idx, raised>>
       ELSE IF next = "tier2"
       THEN /\ stats' = IF r.exc = "none" THEN [stats EXCEPT ![counter] = @ + 1] ELSE stats
            /\ pc' = "t2"
            /\ UNCHANGED <<patents_data, outcomes, idx, raised>>
       ELSE IF LoopCatches(next)
       THEN FailIdentifier("failed") /\ UNCHANGED raised
       ELSE /\ pc' = "raised"
            /\ raised' = "identifier"
            /\ UNCHANGED <<patents_data, stats, outcomes, idx>>

\* tier 1 for the current identifier
V2_Tier1 ==
    /\ variant = "V2" /\ pc = "t1"
    /\ \E resp \in (IF Reliable THEN GoodDetailResponses ELSE DetailResponses),
          reply \in (IF Reliable THEN {NoReply} ELSE GroqReplies),
          dt \in (IF Reliable THEN {0} ELSE 0..MaxFetch) :
           LET r == ExtractStaticHttpx(Work[idx], resp, reply, groq_api_key)
           IN  /\ tierLog' = Append(tierLog, [tier |-> 1, outcome |-> r.outcome,
                                            fallback |-> r.data.biblio_data.title # resp.title])
               /\ elapsed' = elapsed + dt
               /\ AfterTier(r, TieredAfterStatic(r, use_playwright), "static_success")
    /\ UNCHANGED <<fieldVars, lifecycle, held, sessions, progress>>
    /\ UNCHANGED <<variant, use_playwright, groq_api_key, has_callback, max_results,
                   response, wo_list, rate>>

\* tier 2 for the current identifier
V2_Tier2 ==
    /\ variant = "V2" /\ pc = "t2"
    /\ \E nav \in Navigations, reply \in GroqReplies, dt \in 0..MaxFetch :
           LET r == ExtractDirectPlaywright(Work[idx], nav, reply, groq_api_key)
           IN  /\ tierLog' = Append(tierLog, [tier |-> 2, outcome |-> r.outcome,
                                            fallback |-> r.data.biblio_data.title # nav.title])
               /\ elapsed' = elapsed + dt
               /\ AfterTier(r, TieredAfterDirect(r), "direct_success")
    /\ UNCHANGED <<fieldVars, lifecycle, held, sessions, progress>>
    /\ UNCHANGED <<variant, use_playwright, groq_api_key, has_callback, max_results,
                   response, wo_list, rate>>

\* the delay after an identifier that was extracted
V2_Sleep ==
    /\ variant = "V2" /\ pc = "sleep"
    /\ \E d \in (IF Reliable THEN {V2MinDelay} ELSE {V2MinDelay, V2MaxDelay}) :
           elapsed' = elapsed + d
    /\ tierLog' = <<>>
    /\ idx' = idx + 1
    /\ pc' = "loop"
    /\ UNCHANGED <<fieldVars, lifecycle, held, sessions, progress>>
    /\ UNCHANGED <<variant, use_playwright, groq_api_key, has_callback, max_results,
                   response, wo_list, patents_data, stats, outcomes, rate, raised>>

\* the end of the loop: the statistics are reported and the records returned
V2_Finish ==
    /\ variant = "V2" /\ pc = "loop" /\ idx > Len(Work)
    /\ rate' = success_rate(stats)
    /\ pc' = "done"
    /\ tierLog' = <<>>
    /\ elapsed' = 0
    /\ UNCHANGED <<fieldVars, lifecycle, held, sessions, progress>>
    /\ UNCHANGED <<variant, use_playwright, groq_api_key, has_callback, max_results,
                   response, wo_list, idx, patents_data, stats, outcomes, raised>>

(***************************************************************************)
(* V1: WIPOCrawler.search_wipo.                                            *)
(***************************************************************************)
\* V1: asyncio.sleep(random.uniform(1, 2)), in half-seconds
V1MinDelay == 2
V1MaxDelay == 4
PagesV1 ==
    SeqUpTo(SpanElems, MaxRaw)
        \cup {CanonListing(n) : n \in (1..LongListing) \cup LongerListings}

\* what the result page gives _extract_wo_numbers: a wait that times out, or elements
ListingResponsesV1 ==
    {[exc |-> TRUE, status |-> 0, page |-> <<>>]}
        \cup {[exc |-> FALSE, status |-> 200, page |-> p] : p \in PagesV1}

PatentDataV1(wo) == [wo_number |-> wo, source |-> "WIPO"]

\* the browser is started if needed and a page is opened: failures here are
\* start-up failures and leave search_wipo
V1_Begin ==
    /\ variant = "V1" /\ pc = "start"
    /\ \E ok \in BOOLEAN :
           /\ pc' = IF ok THEN "listing" ELSE "raised"
           /\ raised' = IF ok THEN "none" ELSE "startup"
    /\ UNCHANGED <<fieldVars, lifecycle, held, sessions, progress>>
    /\ UNCHANGED <<use_playwright, variant, groq_api_key, has_callback, max_results,
                   response, wo_list, idx, patents_data, stats, tierLog, outcomes,
                   elapsed, rate>>

\* the navigation to the result listing and _extract_wo_numbers; a navigation
\* that raises is caught by the outer handler, which returns []
V1_Search ==
    /\ variant = "V1" /\ pc = "listing"
    /\ \E goto_ok \in BOOLEAN,
          resp \in ExploredWith(ListingResponsesV1, max_results,
                                {r \in ListingResponsesV1 : Len(r.page) > LongListing}) :
           IF goto_ok
           THEN /\ response' = resp
                /\ wo_list' = ExtractWoNumbers(resp)
                /\ pc' = "listed"
           ELSE /\ pc' = "done"
                /\ UNCHANGED <<response, wo_list>>
    /\ UNCHANGED <<fieldVars, lifecycle, held, sessions, progress>>
    /\ UNCHANGED <<variant, use_playwright, groq_api_key, has_callback, max_results,
                   idx, patents_data, stats, tierLog, outcomes, elapsed, rate, raised>>

\* the first progress report, inside the outer try: if the callback raises,
\* the outer handler returns []
V1_AfterList ==
    /\ variant = "V1" /\ pc = "listed"
    /\ response' = NoResponse
    /\ progress' = IF has_callback THEN Append(progress, ProgressCall(0, 5)) ELSE progress
    /\ \E raises \in {r \in BOOLEAN : r => has_callback} :
           IF raises
           THEN pc' = "done" /\ idx' = idx
           ELSE pc' = "loop" /\ idx' = 1
    /\ UNCHANGED <<fieldVars, lifecycle, held, sessions>>
    /\ UNCHANGED <<variant, use_playwright, groq_api_key, has_callback, max_results,
                   wo_list, patents_data, stats, tierLog, outcomes, elapsed, rate, raised>>

\* the top of one loop iteration, with the progress report every tenth identifier;
\* the handler of the loop continues with the next identifier
V1_StartIdentifier ==
    /\ variant = "V1" /\ pc = "loop" /\ idx <= Len(Work)
    /\ elapsed' = 0
    /\ progress' =
           IF has_callback /\ idx % ProgressEveryV1 = 0
           THEN Append(progress, ProgressCall(idx, ProgressPercentV1(idx, Len(wo_list))))
           ELSE progress
    /\ \E raises \in {r \in BOOLEAN : r => (has_callback /\ idx % ProgressEveryV1 = 0)} :
           IF raises
           THEN /\ outcomes' = Append(outcomes, "callback_raised")
                /\ idx' = idx + 1
                /\ pc' = "loop"
           ELSE /\ pc' = "extract"
                /\ UNCHANGED <<outcomes, idx>>
    /\ UNCHANGED <<fieldVars, lifecycle, held, sessions>>
    /\ UNCHANGED <<variant, use_playwright, groq_api_key, has_callback, max_results,
                   response, wo_list, patents_data, stats, tierLog, rate, raised>>

\* _extract_patent_data: the record, or None after any exception
V1_Extract ==
    /\ variant = "V1" /\ pc = "extract"
    /\ \E ok \in (IF Reliable THEN {TRUE} ELSE BOOLEAN),
          dt \in (IF Reliable THEN {0} ELSE 0..MaxFetch) :
           /\ elapsed' = elapsed + dt
           /\ patents_data' = IF ok THEN Append(patents_data, PatentDataV1(Work[idx]))
                              ELSE patents_data
           /\ outcomes' = Append(outcomes, IF ok THEN "extracted" ELSE "dropped")
    /\ pc' = "sleep"
    /\ UNCHANGED <<fieldVars, lifecycle, held, sessions, progress>>
    /\ UNCHANGED <<variant, use_playwright, groq_api_key, has_callback, max_results,
                   response, wo_list, idx, stats, tierLog, rate, raised>>

\* the delay after _extract_patent_data returned
V1_Sleep ==
    /\ variant = "V1" /\ pc = "sleep"
    /\ \E d \in (IF Reliable THEN {V1MinDelay} ELSE {V1MinDelay, V1MaxDelay}) :
           elapsed' = elapsed + d
    /\ idx' = idx + 1
    /\ pc' = "loop"
    /\ UNCHANGED <<fieldVars, lifecycle, held, sessions, progress>>
    /\ UNCHANGED <<variant, use_playwright, groq_api_key, has_callback, max_results,
                   response, wo_list, patents_data, stats, tierLog, outcomes, rate, raised>>

\* the page is closed and the records returned
V1_Finish ==
    /\ variant = "V1" /\ pc = "loop" /\ idx > Len(Work)
    /\ pc' = "done"
    /\ elapsed' = 0
    /\ UNCHANGED <<fieldVars, lifecycle, held, sessions, progress>>
    /\ UNCHANGED <<variant, use_playwright, groq_api_key, has_callback, max_results,
                   response, wo_list, idx, patents_data, stats, tierLog, outcomes, rate,
                   raised>>

(***************************************************************************)
(* V3: search_wipo_patents of wipo_crawler_v2-v3.py.                       *)
(***************************************************************************)
LinkElemsV3 == LinkElems \cup {Link(<<>>, HrefForeign)}

PagesV3 ==
    SeqUpTo(LinkElemsV3, MaxRaw) \cup {CanonLinks(n) : n \in 1..LongListing}

ListingResponsesV3 ==
    {[exc |-> TRUE, status |-> 0, page |-> <<>>],
     [exc |-> FALSE, status |-> 500, page |-> <<>>]}
        \cup {[exc |-> FALSE, status |-> 200, page |-> p] : p \in PagesV3}

PatentDataV3(wo, title) ==
    [wo_number |-> wo, source |-> "WIPO", biblio_data |-> [title |-> title]]

\* search_wipo: an exception of the client and raise_for_status leave the pipeline
V3_Search ==
    /\ variant = "V3" /\ pc = "start"
    /\ \E resp \in ListingResponsesV3 :
           IF resp.exc \/ resp.status >= 400
           THEN /\ pc' = "raised"
                /\ raised' = "listing"
                /\ UNCHANGED <<response, wo_list>>
           ELSE /\ response' = resp
                /\ wo_list' = SearchWipoV3(resp.page, max_results)
                /\ pc' = "listed"
                /\ UNCHANGED raised
    /\ UNCHANGED <<fieldVars, lifecycle, held, sessions, progress>>
    /\ UNCHANGED <<variant, use_playwright, groq_api_key, has_callback, max_results,
                   idx, patents_data, stats, tierLog, outcomes, elapsed, rate>>

V3_AfterList ==
    /\ variant = "V3" /\ pc = "listed"
    /\ response' = NoResponse
    /\ pc' = "loop"
    /\ idx' = 1
    /\ UNCHANGED <<fieldVars, lifecycle, held, sessions, progress>>
    /\ UNCHANGED <<variant, use_playwright, groq_api_key, has_callback, max_results,
                   wo_list, patents_data, stats, tierLog, outcomes, elapsed, rate, raised>>

\* one loop iteration: fetch_detail_html and parse_biblio, or the handler
V3_Process ==
    /\ variant = "V3" /\ pc = "loop" /\ idx <= Len(wo_list)
    /\ \E ok \in BOOLEAN, title \in {TitleClick, TitleGood} :
           IF ok
           THEN /\ patents_data' = Append(patents_data, PatentDataV3(wo_list[idx], title))
                /\ stats' = [stats EXCEPT !.success = @ + 1]
                /\ outcomes' = Append(outcomes, "success")
           ELSE /\ stats' = [stats EXCEPT !.failures = @ + 1]
                /\ outcomes' = Append(outcomes, "failed")
                /\ UNCHANGED patents_data
    /\ idx' = idx + 1
    /\ sessions' = sessions + 1
    /\ UNCHANGED <<fieldVars, lifecycle, held, progress>>
    /\ UNCHANGED <<variant, pc, use_playwright, groq_api_key, has_callback, max_results,
                   response, wo_list, tierLog, elapsed, rate, raised>>

V3_Finish ==
    /\ variant = "V3" /\ pc = "loop" /\ idx > Len(wo_list)
    /\ pc' = "done"
    /\ UNCHANGED <<fieldVars, lifecycle, held, sessions, progress>>
    /\ UNCHANGED <<variant, use_playwright, groq_api_key, has_callback, max_results,
                   response, wo_list, idx, patents_data, stats, tierLog, outcomes,
                   elapsed, rate, raised>>

Next ==
    \/ V2_Start
    \/ V2_Close
    \/ V2_Begin
    \/ V2_GetWoList
    \/ V2_AfterList
    \/ V2_StartIdentifier
    \/ V2_Tier1
    \/ V2_Tier2
    \/ V2_Sleep
    \/ V2_Finish
    \/ V1_Begin
    \/ V1_Search
    \/ V1_AfterList
    \/ V1_StartIdentifier
    \/ V1_Extract
    \/ V1_Sleep
    \/ V1_Finish
    \/ V3_Search
    \/ V3_AfterList
    \/ V3_Process
    \/ V3_Finish

Spec == Init /\ [][Next]_vars

\* texts met in detail pages, in answers of the completion service and among
\* the values given to looks_wrong
NameBayer == <<"B", "a", "y", "e", "r">>
NameOrion == <<"O", "r", "i", "o", "n">>
NameMenu == <<"M", "e", "n", "u">>
IpcGood == <<"A", "6", "1", "K", " ", "9", "/", "1", "4">>
IpcNoise == <<"C", "l", "o", "s", "e">>
ReplyApplicantsList == <<"B", "a", "y", "e", "r", ",", " ", "O", "r", "i", "o", "n">>
ReplyApplicantsTwice == <<"B", "a", "y", "e", "r", ",", " ", "B", "a", "y", "e", "r">>
ReplyIpcGood == <<" ", "A", "6", "1", "K", " ", "9", "/", "1", "4", " ">>
NumberWO == <<"W", "O", "2", "0", "2", "2", "0", "4", "9", "0", "7", "5">>
NumberForeign == <<"X", "Y", "1", "2", "3">>
NumberPadded == <<" ", "W", "O", "1", " ">>
NumberLower == <<"w", "o", "1">>
ValueBlank == <<" ", " ">>
ValueUpperNoise == <<"M", "E", "N", "U">>
CodeSectionY == <<"Y", "0", "2", "A", " ", "5", "0", "/", "3", "0">>

(***************************************************************************)
(* The parsed tree and the structural extractors of V2.  A tree is one     *)
(* container element and its children in document order; a child is an    *)
(* element that holds one string, or a bare string (tag "#text").          *)
(***************************************************************************)
MaxNodes == 3

LabelTitleUpper == <<"T", "I", "T", "L", "E">>
LabelIntCl == <<"I", "n", "t", ".", " ", "C", "l", ".">>
LabelIntClassification ==
    <<"I", "n", "t", "e", "r", "n", "a", "t", "i", "o", "n", "a", "l", " ",
      "C", "l", "a", "s", "s", "i", "f", "i", "c", "a", "t", "i", "o", "n">>
LabelApplicants == <<"A", "p", "p", "l", "i", "c", "a", "n", "t", "s">>
LabelApplicantsUpper == <<"A", "P", "P", "L", "I", "C", "A", "N", "T", "S">>
LabelApplicant == <<"A", "p", "p", "l", "i", "c", "a", "n", "t">>
TextIpcLower == <<"i", "p", "c">>
TextApplicantsLower == <<"a", "p", "p", "l", "i", "c", "a", "n", "t", "s">>
TextOrionPadded == <<" ", "O", "r", "i", "o", "n", " ">>

\* the labels and the tags the call sites of _parse_biblio_robust pass
TitleLabels == <<LabelTitle, LabelTitleUpper>>
IpcLabels == <<LabelIpc, LabelIntCl, LabelIntClassification>>
ApplicantLabels == <<LabelApplicants, LabelApplicantsUpper, LabelApplicant>>
LabelTags == <<"strong", "label", "dt">>

\* the ancestors find_parent looks for
FieldContainers == {"tr", "div", "dl", "li"}
ListContainers == {"div", "section", "dl"}

\* the substrings that make _extract_list_field drop an item
UiTokens ==
    {<<"c", "l", "o", "s", "e">>, <<"c", "l", "i", "c", "k">>,
     <<"r", "e", "s", "e", "t">>, <<"b", "u", "t", "t", "o", "n">>}

Node(tag, text) == [tag |-> tag, text |-> text]

\* the children met around the labels of the single-valued fields
FieldNodes ==
    {Node("strong", LabelTitle), Node("span", LabelTitle), Node("strong", LabelIpc),
     Node("strong", TextIpcLower), Node("dt", LabelIntCl), Node("span", IpcGood),
     Node("span", <<>>), Node("#text", TextOrionPadded)}

\* the children met in the section of a list-valued field
ListNodes ==
    {Node("strong", LabelApplicants), Node("#text", TextApplicantsLower),
     Node("#text", NameBayer), Node("#text", TextOrionPadded),
     Node("#text", TitleClickHere), Node("#text", NameMenu)}

\* the trees given to the extractors: a container that find_parent accepts for
\* both extractors, one it accepts for the single-valued fields only, one it
\* never accepts
Soups ==
    {[container |-> c, nodes |-> ns] :
        c \in {"div", "tr", "p"},
        ns \in SeqUpTo(FieldNodes, MaxNodes) \cup SeqUpTo(ListNodes, MaxNodes)}

\* re.compile(pattern, re.I).search(text) for a pattern of plain characters and dots
RegexSearch(pattern, text) ==
    \E i \in 1..(Len(text) - Len(pattern) + 1) :
        \A k \in 1..Len(pattern) :
            \/ pattern[k] = "."
            \/ Lower(<<pattern[k]>>) = Lower(<<text[i + k - 1]>>)

\* the least member of a set of positions, 0 when there is none
FirstOf(S) == IF S = {} THEN 0 ELSE CHOOSE i \in S : \A j \in S : i <= j

\* soup.find(tag, string=re.compile(label_text, re.I)): the position of the
\* first such element, 0 when there is none
Find(nodes, tag, label_text) ==
    FirstOf({i \in DOMAIN nodes : nodes[i].tag = tag /\ RegexSearch(label_text, nodes[i].text)})

\* label_elem.find_next_sibling(): the next element after position i
FindNextSibling(nodes, i) ==
    FirstOf({j \in DOMAIN nodes : j > i /\ nodes[j].tag # "#text"})

\* get_text(strip=True): the strings of the children, stripped, the empty ones
\* dropped, joined
RECURSIVE GetText(_)
GetText(nodes) ==
    IF nodes = <<>> THEN <<>> ELSE Strip(Head(nodes).text) \o GetText(Tail(nodes))

\* a variant that removes the labels from the tree itself: not part of the program
DecomposeLabelsInPlace(s, tag, label_text) ==
    LET kept == SelectSeq(s.nodes,
                          LAMBDA n : ~(n.tag = tag /\ RegexSearch(label_text, n.text)))
    IN  [copy |-> kept, document |-> [s EXCEPT !.nodes = kept]]

\* parent_copy = BeautifulSoup(str(parent)) and decompose() of the labels in
\* it: the copy without the labels, and the tree, which is left as it was
DecomposeLabels(s, tag, label_text) ==
    [copy |-> SelectSeq(s.nodes,
                        LAMBDA n : ~(n.tag = tag /\ RegexSearch(label_text, n.text))),
     document |-> s]

\* strategy 1 as written: the text of the next sibling element, or nothing
\* when there is none, it is empty or it repeats the label
NextSiblingValue(nodes, i, label_text) ==
    LET j == FindNextSibling(nodes, i)
        value == IF j = 0 THEN <<>> ELSE Strip(nodes[j].text)
    IN  IF value # <<>> /\ Lower(value) # Lower(label_text) THEN value ELSE <<>>

\* strategy 3: the first string after position i that is not blank, stripped
FollowingText(nodes, i) ==
    LET j == FirstOf({k \in DOMAIN nodes : k > i /\ Strip(nodes[k].text) # <<>>})
    IN  IF j = 0 THEN <<>> ELSE Strip(nodes[j].text)

\* what an extractor returns, and the tree after the call
Extracted(value, document) == [value |-> value, document |-> document]

\* the loops of _extract_field_with_label from pair k of (label, tag) on
RECURSIVE ExtractFieldFrom(_, _, _, _)
ExtractFieldFrom(s, labels, label_tags, k) ==
    IF k > Len(labels) * Len(label_tags)
    THEN Extracted(<<>>, s)
    ELSE LET label_text == labels[((k - 1) \div Len(label_tags)) + 1]
             tag == label_tags[((k - 1) % Len(label_tags)) + 1]
             i == Find(s.nodes, tag, label_text)
             first == NextSiblingValue(s.nodes, i, label_text)
             parent == s.container \in FieldContainers
             removed == DecomposeLabels(s, tag, label_text)
             after == IF parent THEN removed.document ELSE s
             second == IF parent THEN GetText(removed.copy) ELSE <<>>
             third == FollowingText(after.nodes, i)
         IN  IF i = 0 THEN ExtractFieldFrom(s, labels, label_tags, k + 1)
             ELSE IF first # <<>> THEN Extracted(first, s)
             ELSE IF second # <<>> THEN Extracted(second, after)
             ELSE IF third # <<>> THEN Extracted(third, after)
             ELSE ExtractFieldFrom(after, labels, label_tags, k + 1)

\* _extract_field_with_label(soup, labels, label_tags)
extract_field_with_label_in(s, labels, label_tags) ==
    ExtractFieldFrom(s, labels, label_tags, 1)

\* the items _extract_list_field collects for a label: the strings of the
\* container, stripped, that are not the label, are longer than two
\* characters and hold no UI token
RECURSIVE ListItems(_, _)
ListItems(nodes, label_text) ==
    IF nodes = <<>> THEN <<>>
    ELSE LET text == Strip(Head(nodes).text)
             rest == ListItems(Tail(nodes), label_text)
         IN  IF /\ text # <<>>
                /\ Lower(text) # Lower(label_text)
                /\ Len(text) > 2
                /\ \A ui \in UiTokens : ~Contains(Lower(text), ui)
             THEN <<text>> \o rest
             ELSE rest

\* the loop of _extract_list_field from label k on
RECURSIVE ExtractListFrom(_, _, _)
ExtractListFrom(s, labels, k) ==
    IF k > Len(labels) THEN <<>>
    ELSE LET section == FirstOf({i \in DOMAIN s.nodes : RegexSearch(labels[k], s.nodes[i].text)})
             unique_items == DictFromKeys(ListItems(s.nodes, labels[k]))
         IN  IF section # 0 /\ s.container \in ListContainers /\ unique_items # <<>>
             THEN unique_items
             ELSE ExtractListFrom(s, labels, k + 1)

\* _extract_list_field(soup, labels)
extract_list_field(s, labels) == ExtractListFrom(s, labels, 1)

(***************************************************************************)
(* The parse of one detail page by a tier of V2, the validator on its own, *)
(* and the structural extractors on one tree.                              *)
(***************************************************************************)

\* what _extract_list_field finds for the applicants: it keeps no entry of
\* fewer than three characters and none that holds close, click, reset or button
StructuralApplicants == {<<>>, <<NameMenu>>, <<NameBayer>>, <<NameBayer, NameOrion>>}

\* the text next to the label IPC
StructuralIpc == {<<>>, IpcNoise, IpcGood}

\* what the completion service answers when asked for the applicants
GroqApplicantReplies ==
    {NoReply}
        \cup {[error |-> FALSE, content |-> c] : c \in {<<>>, ReplyPaddedClose, ReplyApplicantsList, ReplyApplicantsTwice}}

\* what the completion service answers when asked for the classification
GroqIpcReplies ==
    {NoReply} \cup {[error |-> FALSE, content |-> c] : c \in {ReplyPaddedClose, ReplyIpcGood}}

\* the detail pages a tier may have to parse, with the answers the completion
\* service would give for each field
Documents ==
    {[title |-> t, applicants |-> a, ipc |-> i,
      replies |-> [title |-> rt, applicants |-> ra, ipc |-> ri]] :
        t \in StructuralTitles, a \in StructuralApplicants, i \in StructuralIpc,
        rt \in GroqReplies, ra \in GroqApplicantReplies, ri \in GroqIpcReplies}

\* the kinds of field looks_wrong knows, and two it does not
FieldKinds == {"title", "ipc", "publication_number", "applicants", "abstract", "cpc"}

\* values given to looks_wrong
ProbeValues ==
    {<<>>, ValueBlank, ReplyPaddedClose, ValueUpperNoise, TitleNoise, TitleClick,
     TitleClickHere, TitleGood, NumberWO, NumberForeign, NumberPadded, NumberLower,
     IpcGood, NameBayer, CodeSectionY}

\* a crawler object on which no run is under way
IdleRun ==
    /\ variant = "V2"
    /\ pc = "idle"
    /\ use_playwright = FALSE
    /\ has_callback = FALSE
    /\ max_results = 0
    /\ response = NoResponse
    /\ wo_list = <<>>
    /\ idx = 0
    /\ patents_data = <<>>
    /\ stats = ZeroStats
    /\ tierLog = <<>>
    /\ outcomes = <<>>
    /\ elapsed = 0
    /\ rate = NoRate
    /\ raised = "none"
    /\ lifecycle = "new"
    /\ held = {}
    /\ sessions = 0
    /\ progress = <<>>

\* a tier is about to parse a detail page, or a value is about to be
\* validated, or a tree is about to be searched by the structural extractors
InitFields ==
    /\ IdleRun
    /\ biblio = NoBiblio
    /\ calls = <<>>
    /\ verdict = "none"
    /\ seen = NoneSeen
    /\ \E what \in {"page", "value", "soup"} :
           /\ fpc = what
           /\ groq_api_key \in (IF what = "soup" THEN {FALSE} ELSE BOOLEAN)
           /\ doc \in (IF what = "page" THEN Documents ELSE {NoDoc})
           /\ probe \in (IF what = "value"
                         THEN {[value |-> v, kind |-> k, wrong |-> "unasked"] :
                                   v \in ProbeValues, k \in FieldKinds}
                         ELSE {NoProbe})
           /\ soup \in (IF what = "soup" THEN Soups ELSE {NoSoup})

\* the identifier of the page being parsed
DocIdentifier == <<"W", "O", "1">>

\* _extract_static_httpx on a page that was fetched: _parse_biblio_robust, then
\* the validation of the title
F_ParsePage ==
    /\ fpc = "page"
    /\ LET b == ParseBiblioRobust(doc, groq_api_key)
           r == ExtractStaticHttpx(DocIdentifier,
                                   [exc |-> "none", status |-> 200,
                                    title |-> extract_field_with_label(LabelTitle, doc.title)],
                                   doc.replies.title, groq_api_key)
       IN  /\ biblio' = [title |-> r.data.biblio_data.title,
                         applicants |-> b.applicants, ipc_codes |-> b.ipc_codes]
           /\ calls' = b.calls
           /\ verdict' = IF r.exc = "none" THEN "success" ELSE r.outcome
    /\ fpc' = "parsed"
    /\ UNCHANGED <<runVars, groq_api_key, doc, probe, soup, seen>>

\* looks_wrong(value, field_type)
F_LooksWrong ==
    /\ fpc = "value"
    /\ probe' = [probe EXCEPT !.wrong = IF looks_wrong(probe.value, probe.kind)
                                        THEN "yes" ELSE "no"]
    /\ fpc' = "validated"
    /\ UNCHANGED <<runVars, groq_api_key, doc, biblio, calls, verdict, soup, seen>>

\* the labels of a single-valued field
LabelsOf(field) == IF field = "title" THEN TitleLabels ELSE IpcLabels

\* one call of _extract_field_with_label, for the title or for the classification
F_ExtractField ==
    /\ fpc = "soup"
    /\ \E field \in {"title", "ipc"} :
           LET r == extract_field_with_label_in(soup, LabelsOf(field), LabelTags)
           IN  /\ seen' = [seen EXCEPT ![field] = @ \cup {r.value}]
               /\ soup' = r.document
    /\ UNCHANGED <<runVars, groq_api_key, fpc, doc, biblio, calls, verdict, probe>>

\* one call of _extract_list_field, for the applicants
F_ExtractList ==
    /\ fpc = "soup"
    /\ seen' = [seen EXCEPT !.applicants = @ \cup {extract_list_field(soup, ApplicantLabels)}]
    /\ UNCHANGED <<runVars, groq_api_key, fpc, doc, biblio, calls, verdict, probe, soup>>

NextFields ==
    \/ F_ParsePage
    \/ F_LooksWrong
    \/ F_ExtractField
    \/ F_ExtractList

FieldSpec == InitFields /\ [][NextFields]_vars

(***************************************************************************)
(* Properties.                                                             *)
(***************************************************************************)
\* a record for identifier wo is in the output
RecordFor(wo) == \E i \in DOMAIN patents_data : patents_data[i].wo_number = wo

\* no identifier that ended as a failure has a record
AbsentWhenFailed ==
    \A i \in DOMAIN outcomes :
        outcomes[i] \in {"failed", "callback_raised"} => ~RecordFor(Work[i])

\* a tier step of V2 that ends the current identifier without a success
ExhaustingStep ==
    /\ variant = "V2"
    /\ pc \in {"t1", "t2"}
    /\ pc' # "t2"
    /\ tierLog'[Len(tierLog')].outcome # "success"

\* C1: within one call of _extract_patent_tiered the tiers are invoked in
\* increasing order starting with T1, each at most once, never a lower tier
\* after a higher one, and no tier after the first one that succeeded.
C1_TierEscalationMonotonic ==
    variant = "V2" =>
        /\ tierLog # <<>> => tierLog[1].tier = 1
        /\ \A i \in DOMAIN tierLog : tierLog[i].tier = 2 => use_playwright
        /\ \A i, j \in DOMAIN tierLog :
               i < j => /\ tierLog[i].tier < tierLog[j].tier
                        /\ tierLog[i].outcome # "success"

\* T1 failed on the HTTP status, T2 was invoked next and succeeded
C1_Witness ==
    /\ variant = "V2" /\ pc = "sleep"
    /\ Len(tierLog) = 2
    /\ tierLog[1].outcome = "http_status"
    /\ tierLog[2].outcome = "success"

\* C2: every record collected by search_wipo (V2) has a title the validator
\* accepts, whether structural or from the fallback, and an identifier whose
\* title failed validation at every tier has no record.
C2_EmittedTitlesValid ==
    variant = "V2" =>
        /\ \A i \in DOMAIN patents_data :
               ~looks_wrong(patents_data[i].biblio_data.title, "title")
        /\ (pc = "loop" /\ tierLog # <<>>
              /\ \A k \in DOMAIN tierLog : tierLog[k].outcome = "validation_failed")
               => outcomes[idx - 1] = "failed"
        /\ AbsentWhenFailed

\* a record was just emitted whose title is the answer of the fallback
C2_Witness ==
    /\ variant = "V2" /\ pc = "sleep"
    /\ tierLog[Len(tierLog)].fallback
    /\ patents_data[Len(patents_data)].wo_number = Work[idx]

\* C3: when no tier succeeds for an identifier, the step that ends it adds
\* exactly 1 to stats.failures and nothing to the other counters, adds no
\* record, raises nothing and moves on to the next identifier; the identifier
\* stays absent from the output.
C3_AllTiersFail ==
    /\ [][ExhaustingStep =>
            /\ stats' = [stats EXCEPT !.failures = @ + 1]
            /\ patents_data' = patents_data
            /\ ~RecordFor(Work[idx])
            /\ pc' = "loop"
            /\ idx' = idx + 1
            /\ raised' = "none"]_vars
    /\ [](variant = "V2" => AbsentWhenFailed)

\* both tiers failed for the first identifier and the second one was extracted
C3_Witness ==
    /\ variant = "V2" /\ use_playwright
    /\ Len(outcomes) = 2
    /\ outcomes[1] = "failed"
    /\ outcomes[2] = "static_success"
    /\ Len(patents_data) = 1

\* C4 (as claimed): with rendering enabled, an identifier whose T1 fetch failed
\* in transport (status, network error or timeout) is recorded as failed only
\* after T2 was attempted for it.
C4_TransportFailureEscalates ==
    (/\ variant = "V2" /\ use_playwright
     /\ pc = "loop" /\ tierLog # <<>>
     /\ tierLog[1].outcome \in {"http_status", "network_error", "timeout"})
        => \E i \in DOMAIN tierLog : tierLog[i].tier = 2

\* the tokens of the listing the lister holds, in page order, normalized as
\* the running variant normalizes them
SourceTokens ==
    IF variant = "V1"
    THEN KeepTokens([i \in 1..Len(response.page) |-> NormalizeV1(response.page[i])])
    ELSE IF variant = "V2"
    THEN LET elems == SelectElements(response.page)
         IN  KeepTokens([i \in 1..Len(elems) |-> NormalizeV2(elems[i])])
    ELSE KeepTokens([i \in 1..Len(response.page) |-> NormalizeV3(response.page[i])])

FirstIndex(t, tokens) ==
    CHOOSE i \in DOMAIN tokens : tokens[i] = t /\ \A k \in 1..(i - 1) : tokens[k] # t

\* xs holds no duplicates, only tokens of the listing, in the order of their
\* first occurrence, skipping none that occurs before one it holds
FirstSeenOrder(xs, tokens) ==
    /\ \A i, j \in DOMAIN xs : i # j => xs[i] # xs[j]
    /\ \A i \in DOMAIN xs : \E k \in DOMAIN tokens : tokens[k] = xs[i]
    /\ \A i, j \in DOMAIN xs : i < j => FirstIndex(xs[i], tokens) < FirstIndex(xs[j], tokens)
    /\ \A i \in DOMAIN xs, k \in DOMAIN tokens :
           k < FirstIndex(xs[i], tokens) => \E j \in DOMAIN xs : xs[j] = tokens[k]

\* every entry has the prefix WO and no separator
Canonical(xs) ==
    \A i \in DOMAIN xs :
        /\ StartsWith(xs[i], WOPrefix)
        /\ \A k \in DOMAIN xs[i] : xs[i][k] \notin {"/", "-", " "}

\* C5 (as claimed): the list a candidate lister returns has no duplicates, is
\* in first-occurrence order of the listing, and every entry starts with WO
\* and holds no '/', '-' or whitespace.
C5_ListingDeduplicated ==
    pc = "listed" => FirstSeenOrder(wo_list, SourceTokens) /\ Canonical(wo_list)

\* the same for the listers of V2 and V3 alone
ListingDeduplicatedV2V3 ==
    (pc = "listed" /\ variant # "V1")
        => FirstSeenOrder(wo_list, SourceTokens) /\ Canonical(wo_list)

\* the identifiers that ended in a success so far, in processing order
RECURSIVE Succeeded(_)
Succeeded(n) ==
    IF n = 0 THEN <<>>
    ELSE IF outcomes[n] \in {"failed", "callback_raised", "dropped"}
         THEN Succeeded(n - 1)
         ELSE Append(Succeeded(n - 1), Work[n])

\* C6: search_wipo (V1 and V2) raises for no outcome of the listing fetch, of
\* a tier or of the fallback: the only exceptions that leave it come from
\* start-up or from the caller's callback; until it returns it can go on (a
\* tier always has an identifier to work on), and what it has collected are
\* the records of the identifiers that succeeded.
C6_NeverRaisesForPartialFailure ==
    variant \in {"V1", "V2"} =>
        /\ raised \in {"none", "startup", "callback"}
        /\ pc = "raised" <=> raised # "none"
        /\ pc \in {"t1", "t2", "extract"} => idx \in DOMAIN Work
        /\ pc \in {"start", "listed", "loop", "sleep"} => ENABLED Next
        /\ [i \in DOMAIN patents_data |-> patents_data[i].wo_number] = Succeeded(Len(outcomes))

\* a run returned after the first identifier failed and the second one was
\* extracted by T2
C6_Witness ==
    /\ variant = "V2" /\ pc = "done"
    /\ Len(outcomes) = 2
    /\ outcomes[1] = "failed"
    /\ outcomes[2] = "direct_success"

\* C7: when T1 succeeded for each of the n >= 1 identifiers of the listing
\* (n <= max_results), the run returns n records, all tagged static_httpx,
\* and success_rate() is 100.
C7_AllStaticSucceed ==
    (/\ variant = "V2" /\ pc = "done"
     /\ Len(wo_list) >= 1 /\ Len(wo_list) <= max_results
     /\ Len(outcomes) = Len(wo_list)
     /\ \A i \in DOMAIN outcomes : outcomes[i] = "static_success")
        => /\ Len(patents_data) = Len(wo_list)
           /\ \A i \in DOMAIN patents_data :
                  /\ patents_data[i].extraction_method = "static_httpx"
                  /\ patents_data[i].wo_number = wo_list[i]
           /\ rate = <<100, 1>>

\* a run over two identifiers, both extracted by T1
C7_Witness ==
    /\ variant = "V2" /\ pc = "done"
    /\ Len(wo_list) = 2
    /\ outcomes = <<"static_success", "static_success">>

\* C8: when T1 failed validation for an identifier and T2 succeeds, the
\* record of the identifier is appended with method direct_playwright, the
\* tier-2 counter grows by 1 and no other counter changes.
C8_EscalatedSuccess ==
    [][(/\ variant = "V2" /\ pc = "t2"
        /\ tierLog[1].outcome = "validation_failed"
        /\ tierLog'[Len(tierLog')].outcome = "success")
          => /\ Len(patents_data') = Len(patents_data) + 1
             /\ SubSeq(patents_data', 1, Len(patents_data)) = patents_data
             /\ patents_data'[Len(patents_data')].wo_number = Work[idx]
             /\ patents_data'[Len(patents_data')].extraction_method = "direct_playwright"
             /\ stats' = [stats EXCEPT !.direct_success = @ + 1]]_vars

\* T1 failed validation and T2 succeeded for the identifier being processed
C8_Witness ==
    /\ variant = "V2" /\ pc = "sleep"
    /\ Len(tierLog) = 2
    /\ tierLog[1].outcome = "validation_failed"
    /\ tierLog[2].outcome = "success"
    /\ patents_data[Len(patents_data)].extraction_method = "direct_playwright"

Attempts == StatsTotal(stats)

\* C9 (as claimed): the reported rate is (attempts - failures) / attempts,
\* and 0 when there were no attempts.
C9_RateIsRatio ==
    (variant = "V2" /\ pc = "done" /\ rate # NoRate)
        => IF Attempts = 0 THEN rate = <<0, 1>>
           ELSE rate[1] * Attempts = (Attempts - stats.failures) * rate[2]

\* C9 (amended): the reported rate is the percentage
\* 100 * (attempts - failures) / attempts, and 0 when there were no attempts.
C9_RateIsPercentage ==
    (variant = "V2" /\ pc = "done" /\ rate # NoRate)
        => /\ rate[2] > 0
           /\ IF Attempts = 0 THEN rate = <<0, 1>>
              ELSE rate[1] * Attempts = 100 * (Attempts - stats.failures) * rate[2]

\* a run with two successes and one failure reported 200/3
C9_Witness ==
    /\ variant = "V2" /\ pc = "done"
    /\ Attempts = 3 /\ stats.failures = 1
    /\ rate = <<200, 3>>

MinDelay == IF variant = "V1" THEN V1MinDelay ELSE V2MinDelay

\* C10 (as claimed): when processing of an identifier other than the first
\* starts, at least the minimum delay has elapsed since processing of the
\* previous one started.
C10_RateLimited ==
    (/\ variant \in {"V1", "V2"}
     /\ pc = "loop" /\ idx > 1 /\ idx <= Len(Work))
        => elapsed >= MinDelay

\* C11 (as claimed): an exception of the progress callback changes nothing:
\* search_wipo still returns and the identifier at which the callback raised
\* is still extracted through the tiers.
C11_CallbackFailuresIgnored ==
    variant \in {"V1", "V2"} =>
        /\ raised # "callback"
        /\ \A i \in DOMAIN outcomes : outcomes[i] # "callback_raised"

\* the identifiers whose loop iteration has started
Started == IF pc \in {"t1", "t2", "sleep", "extract"} THEN idx ELSE idx - 1

\* the calls of the callback made inside the loop
LoopCalls == SelectSeq(progress, LAMBDA c : c.at > 0)

ProgressEvery == IF variant = "V1" THEN ProgressEveryV1 ELSE ProgressEveryV2

\* C12 (as claimed): inside the loop the callback is invoked once for each
\* identifier whose index is a multiple of K and for no other, and every
\* percent passed to it is in 0..100 (5..20 in V1) and not below the one before.
C12_ProgressCadence ==
    variant \in {"V1", "V2"} =>
        /\ ~has_callback => progress = <<>>
        /\ has_callback =>
               /\ {LoopCalls[i].at : i \in DOMAIN LoopCalls}
                      = {k \in 1..Started : k % ProgressEvery = 0}
               /\ \A i, j \in DOMAIN LoopCalls : i < j => LoopCalls[i].at < LoopCalls[j].at
        /\ \A i \in DOMAIN progress :
               progress[i].percent \in (IF variant = "V1" THEN 5..20 ELSE 0..100)
        /\ \A i, j \in DOMAIN progress : i < j => progress[i].percent <= progress[j].percent

\* the same for the caps that are not negative
ProgressCadenceForCounts == max_results >= 0 => C12_ProgressCadence

\* C13 (as claimed): at most one rendering session is launched in a run, and
\* once the run is over (start failed, or close was called) the HTTP client,
\* the browser context and the browser are released.
C13_ResourcesScoped ==
    variant \in {"V2", "V3"} =>
        /\ sessions <= 1
        /\ lifecycle \in {"start_failed", "closed", "close_failed"}
               => held \cap {"client", "context", "browser"} = {}

\* the structural candidate of a field of the page being parsed
StructuralTitle == extract_field_with_label(LabelTitle, doc.title)
StructuralIpcCodes == extract_field_with_label(LabelIpc, doc.ipc)

\* the structural candidate of a field fails the validator
CandidateFails(field) ==
    IF field = "title" THEN looks_wrong(StructuralTitle, "title")
    ELSE IF field = "ipc" THEN looks_wrong(StructuralIpcCodes, "ipc")
    ELSE \/ doc.applicants = <<>>
         \/ \E i \in DOMAIN doc.applicants : looks_wrong(doc.applicants[i], "applicants")

\* C14: groq_extract_field is invoked for a field only when the structural
\* candidate of the field fails the validator, at most once per field, and
\* never for a field whose structural value passes.
C14_FallbackOnlyOnFailure ==
    fpc = "parsed" =>
        /\ \A i \in DOMAIN calls :
               /\ calls[i].field \in {"title", "applicants", "ipc"}
               /\ CandidateFails(calls[i].field)
        /\ \A i, j \in DOMAIN calls : i # j => calls[i].field # calls[j].field

\* the fallback was invoked for the title alone
C14_Witness ==
    /\ fpc = "parsed"
    /\ Len(calls) = 1
    /\ calls[1].field = "title"
    /\ ~CandidateFails("ipc")

\* C15 (as claimed): a field differs from its structural candidate only when
\* the value it holds passes the validator for the kind of the field.
C15_FallbackValidated ==
    fpc = "parsed" =>
        /\ biblio.title # StructuralTitle => ~looks_wrong(biblio.title, "title")
        /\ biblio.ipc_codes # StructuralIpcCodes => ~looks_wrong(biblio.ipc_codes, "ipc")
        /\ biblio.applicants # doc.applicants
               => \A i \in DOMAIN biblio.applicants :
                      ~looks_wrong(biblio.applicants[i], "applicants")

\* the fallback gave nothing for the field of this reply
FallbackFailed(reply) == ~groq_api_key \/ reply.error

\* C16: a fallback that fails (no credentials, or an error of the service)
\* leaves the field at its structural value and never makes the tier raise
\* anything but its own validation error; the tier succeeds exactly when the
\* structural title is valid; without credentials the service is not contacted.
C16_FallbackFailureSilent ==
    fpc = "parsed" =>
        /\ verdict \in {"success", "validation_failed"}
        /\ FallbackFailed(doc.replies.title) =>
               /\ biblio.title = StructuralTitle
               /\ verdict = "success" <=> ~looks_wrong(StructuralTitle, "title")
        /\ FallbackFailed(doc.replies.applicants) => biblio.applicants = doc.applicants
        /\ FallbackFailed(doc.replies.ipc) => biblio.ipc_codes = StructuralIpcCodes
        /\ ~groq_api_key => \A i \in DOMAIN calls : ~calls[i].contacted

\* without credentials the fallback was invoked for a bad title, and the tier
\* failed on the title
C16_Witness ==
    /\ fpc = "parsed"
    /\ ~groq_api_key
    /\ ~doc.replies.title.error
    /\ \E i \in DOMAIN calls : calls[i].field = "title"
    /\ verdict = "validation_failed"

\* the value is empty, blank or a word of the noise vocabulary
AlwaysWrong(value) ==
    \/ Strip(value) = <<>>
    \/ Lower(Strip(value)) \in invalid_patterns

\* C17: looks_wrong answers wrong for every kind when the value is empty,
\* blank or (trimmed, whatever the case) a noise word; for publication_number
\* it answers wrong exactly when the trimmed value does not start with WO.
C17_ValidatorVocabulary ==
    fpc = "validated" =>
        /\ probe.wrong \in {"yes", "no"}
        /\ AlwaysWrong(probe.value) => probe.wrong = "yes"
        /\ probe.kind = "publication_number"
               => (probe.wrong = "yes" <=> ~StartsWith(Strip(probe.value), WOPrefix))
        /\ (probe.kind = "publication_number" /\ probe.value = NumberWO) => probe.wrong = "no"
        /\ (probe.kind = "publication_number" /\ probe.value = NumberForeign)
               => probe.wrong = "yes"

\* an upper-case noise word was rejected as an abstract
C17_Witness ==
    /\ fpc = "validated"
    /\ probe.value = ValueUpperNoise
    /\ probe.kind = "abstract"
    /\ probe.wrong = "yes"

\* the fallback gave a title the validator accepts
FallbackTitleValid ==
    /\ groq_api_key
    /\ ~doc.replies.title.error
    /\ Strip(doc.replies.title.content) # <<>>
    /\ ~looks_wrong(Strip(doc.replies.title.content), "title")

\* C18: for a page whose label Title is followed by the text Click, the title
\* of the parse is never Click when the tier succeeds, the fallback is invoked
\* for the title, and the tier fails on the title unless the fallback gave a
\* valid one.
C18_ClickNeverATitle ==
    (fpc = "parsed" /\ doc.title = TitleClick) =>
        /\ \E i \in DOMAIN calls : calls[i].field = "title"
        /\ verdict = "success" => (biblio.title # TitleClick /\ FallbackTitleValid)
        /\ ~FallbackTitleValid => verdict = "validation_failed"

\* the fallback answered with noise for the page with the title Click, and the
\* tier failed
C18_Witness ==
    /\ fpc = "parsed"
    /\ doc.title = TitleClick
    /\ groq_api_key
    /\ doc.replies.title.content = ReplyPaddedClose
    /\ verdict = "validation_failed"
    /\ biblio.title = TitleClick

\* C19 (as claimed): the lister returns to its caller only after a listing
\* fetch that did not fail; a fetch that raised or answered with another
\* status than 200 is propagated.
C19_ListerPropagatesTransportError ==
    (variant \in {"V2", "V3"} /\ pc = "listed")
        => (~response.exc /\ response.status = 200)

\* the deduplicated listing, while the lister holds the response
Deduplicated == DictFromKeys(SourceTokens)

\* the identifiers a run may process
Processable == IF variant = "V2" THEN Work ELSE wo_list

\* C20: for max_results >= 0 the identifiers of a run are the first
\* min(max_results, length) entries of the deduplicated listing: no more
\* iterations start, and no more records are returned.
C20_ProcessedIsPrefix ==
    (variant \in {"V2", "V3"} /\ max_results >= 0) =>
        /\ pc = "listed" =>
               /\ Len(Processable) = Min(max_results, Len(Deduplicated))
               /\ \A i \in DOMAIN Processable : Processable[i] = Deduplicated[i]
        /\ Started <= Len(Processable)
        /\ Len(outcomes) <= max_results
        /\ Len(patents_data) <= max_results
        /\ \A i \in DOMAIN patents_data :
               \E k \in DOMAIN Processable : patents_data[i].wo_number = Processable[k]
        /\ (pc = "done" /\ wo_list # <<>>) => Len(outcomes) = Len(Processable)

\* a run over a listing of five identifiers with max_results = 2 ended
C20_Witness ==
    /\ variant = "V2" /\ pc = "done"
    /\ Len(wo_list) = LongListing
    /\ max_results = 2
    /\ Len(outcomes) = 2
    /\ Len(patents_data) = 2

\* the identifiers of the records of the output, in output order
RecordIdentifiers == [i \in DOMAIN patents_data |-> patents_data[i].wo_number]

\* C21: the identifiers of the records are identifiers of the run, in the
\* order the run processes them, and none of them has two records.
C21_OutputInProcessingOrder ==
    variant \in {"V2", "V3"} =>
        /\ \A i \in DOMAIN RecordIdentifiers :
               \E k \in DOMAIN Processable : Processable[k] = RecordIdentifiers[i]
        /\ \A i, j \in DOMAIN RecordIdentifiers :
               i < j => FirstIndex(RecordIdentifiers[i], Processable)
                            < FirstIndex(RecordIdentifiers[j], Processable)
        /\ \A i, j \in DOMAIN RecordIdentifiers :
               i # j => RecordIdentifiers[i] # RecordIdentifiers[j]

\* the second of three identifiers failed, and the output holds the first and
\* the third
C21_Witness ==
    /\ variant = "V2" /\ pc = "done"
    /\ Len(outcomes) = 3
    /\ outcomes[2] = "failed"
    /\ RecordIdentifiers = <<Work[1], Work[3]>>

\* the counters of the success of a tier
SuccessCounters == DOMAIN stats \ {"failures"}

\* the sum of the counters in S
RECURSIVE CounterSum(_)
CounterSum(S) ==
    IF S = {} THEN 0
    ELSE LET c == CHOOSE c \in S : TRUE IN stats[c] + CounterSum(S \ {c})

\* each identifier whose iteration is over has one count, each record one
\* count of a success
Conservation ==
    variant \in {"V2", "V3"} =>
        /\ CounterSum(DOMAIN stats) = Len(outcomes)
        /\ CounterSum(SuccessCounters) = Len(patents_data)
        /\ pc = "done" /\ wo_list # <<>> => CounterSum(DOMAIN stats) = Len(Processable)

\* no counter decreases, and a step adds 1 to one counter at most
CountersStep ==
    variant \in {"V2", "V3"} =>
        /\ \A c \in DOMAIN stats : stats'[c] \in {stats[c], stats[c] + 1}
        /\ \A c, e \in DOMAIN stats : (stats'[c] # stats[c] /\ stats'[e] # stats[e]) => c = e

\* C26: the counters only increase and by 1 at a time; the counters add up to
\* the number of identifiers processed, and the success counters to the number
\* of records.
C26_StatsConservation == []Conservation /\ [][CountersStep]_vars

\* a run over three identifiers ended with one count in each counter of V2
\* that the program increments
C26_Witness ==
    /\ variant = "V2" /\ pc = "done"
    /\ stats.static_success = 1 /\ stats.direct_success = 1 /\ stats.failures = 1
    /\ Len(patents_data) = 2

\* C27 (as claimed): an identifier has been counted as a failure only when
\* tier 1 was attempted for it and failed, and with use_playwright tier 2 too.
C27_FailureAfterEveryTier ==
    (/\ variant = "V2" /\ pc = "loop"
     /\ outcomes # <<>>
     /\ outcomes[Len(outcomes)] \in {"failed", "callback_raised"})
        => /\ \E i \in DOMAIN tierLog :
                  tierLog[i].tier = 1 /\ tierLog[i].outcome # "success"
           /\ use_playwright =>
                  \E i \in DOMAIN tierLog :
                      tierLog[i].tier = 2 /\ tierLog[i].outcome # "success"
           /\ ~use_playwright => \A i \in DOMAIN tierLog : tierLog[i].tier # 2

\* the value holds a letter, two digits and a letter in a row
ClassificationShape(v) ==
    \E i \in 1..(Len(v) - 3) :
        /\ v[i] \in DOMAIN UpperToLower
        /\ IsDigit(v[i + 1])
        /\ IsDigit(v[i + 2])
        /\ v[i + 3] \in DOMAIN UpperToLower

\* C22 (as claimed): for the kinds ipc and cpc looks_wrong answers wrong
\* exactly when the value lacks the shape letter, two digits, letter, whatever
\* the first letter is.
C22_ClassificationShape ==
    (fpc = "validated" /\ probe.kind \in {"ipc", "cpc"})
        => (probe.wrong = "yes" <=> ~ClassificationShape(Strip(probe.value)))

\* the same for the kind ipc and the sections A to H
IpcSectionsValidated ==
    (fpc = "validated" /\ probe.kind = "ipc")
        => (probe.wrong = "yes" <=> ~IpcShape(Strip(probe.value)))

\* the text is not empty and does not repeat the label
Acceptable(value, label_text) == value # <<>> /\ Lower(value) # Lower(label_text)

\* what the three strategies yield for the label found at position i, in
\* their order: the next sibling element, the container without the labels,
\* the following strings
StrategyTexts(s, i, tag, label_text) ==
    LET j == FindNextSibling(s.nodes, i)
    IN  << IF j = 0 THEN <<>> ELSE Strip(s.nodes[j].text),
           IF s.container \in FieldContainers
           THEN GetText(DecomposeLabels(s, tag, label_text).copy)
           ELSE <<>>,
           FollowingText(s.nodes, i) >>

\* the first acceptable text of the strategies in their order, for the pairs
\* of label and tag from pair k on; the empty string when there is none
RECURSIVE FirstAcceptable(_, _, _, _)
FirstAcceptable(s, labels, label_tags, k) ==
    IF k > Len(labels) * Len(label_tags) THEN <<>>
    ELSE LET label_text == labels[((k - 1) \div Len(label_tags)) + 1]
             tag == label_tags[((k - 1) % Len(label_tags)) + 1]
             i == Find(s.nodes, tag, label_text)
             texts == StrategyTexts(s, i, tag, label_text)
             good == {n \in 1..3 : Acceptable(texts[n], label_text)}
         IN  IF i # 0 /\ good # {}
             THEN texts[FirstOf(good)]
             ELSE FirstAcceptable(s, labels, label_tags, k + 1)

\* C23 (as claimed): _extract_field_with_label returns the text of the first
\* strategy, in the order sibling, container, following text and for the
\* labels in their listed order, that is not empty and does not repeat the
\* label, and the empty string when there is none.
C23_FirstAcceptableStrategy ==
    fpc = "soup" =>
        \A field \in {"title", "ipc"} :
            \A value \in seen[field] :
                value = FirstAcceptable(soup, LabelsOf(field), LabelTags, 1)

\* for a label followed by one sibling element in no container the extractor
\* returns what _parse_biblio_robust is given in the parse of a detail page
SiblingCaseAgrees ==
    (/\ fpc = "soup" /\ soup.container = "p" /\ Len(soup.nodes) = 2
     /\ soup.nodes[1] = Node("strong", LabelTitle)
     /\ soup.nodes[2].tag = "span")
        => \A value \in seen.title :
               value = extract_field_with_label(LabelTitle, soup.nodes[2].text)

\* a list without duplicates, of at most ten entries, none of which is one of
\* the labels or holds a UI token
CleanList(xs, labels) ==
    /\ \A i, j \in DOMAIN xs : i # j => xs[i] # xs[j]
    /\ Len(xs) <= MaxApplicants
    /\ \A i \in DOMAIN xs :
           /\ \A k \in DOMAIN labels : Lower(xs[i]) # Lower(labels[k])
           /\ \A ui \in UiTokens : ~Contains(Lower(xs[i]), ui)

\* C24 (as claimed): the applicants of a parsed page, whether they come from
\* _extract_list_field or from the fallback, hold no duplicate, no more than
\* ten entries, no label and no UI token.
C24_ListFieldsClean ==
    /\ fpc = "soup" => \A xs \in seen.applicants : CleanList(xs, ApplicantLabels)
    /\ fpc = "parsed" => CleanList(biblio.applicants, ApplicantLabels)

\* what _extract_list_field returns holds no duplicate and no UI token, and
\* is in first-occurrence order
StructuralListsDeduplicated ==
    fpc = "soup" =>
        \A xs \in seen.applicants :
            /\ \A i, j \in DOMAIN xs : i # j => xs[i] # xs[j]
            /\ \A i \in DOMAIN xs, ui \in UiTokens : ~Contains(Lower(xs[i]), ui)
            /\ \A i, j \in DOMAIN xs :
                   i < j =>
                       FirstOf({k \in DOMAIN soup.nodes : Strip(soup.nodes[k].text) = xs[i]})
                           < FirstOf({k \in DOMAIN soup.nodes : Strip(soup.nodes[k].text) = xs[j]})

\* C25: the structural extractors leave the tree as it was, and every call of
\* an extractor for a field returns the same value, in whatever order the
\* extractors are called.
C25_ExtractorsPure ==
    /\ [](fpc = "soup" => \A field \in Fields : Cardinality(seen[field]) <= 1)
    /\ [][soup' = soup]_vars

\* the title was taken from the container (the label has no acceptable
\* sibling), and the classification and the applicants were extracted too
C25_Witness ==
    /\ fpc = "soup"
    /\ soup.container \in FieldContainers \cap ListContainers
    /\ Find(soup.nodes, "strong", LabelTitle) # 0
    /\ NextSiblingValue(soup.nodes, Find(soup.nodes, "strong", LabelTitle), LabelTitle) = <<>>
    /\ seen.title # {} /\ <<>> \notin seen.title
    /\ seen.ipc # {}
    /\ seen.applicants # {}

====
